---- MODULE Spec2Model ----
(***************************************************************************)
(* Model of the measurement session of the Veichi annotator: the Canvas    *)
(* class of app/app.py together with the marker helpers of                 *)
(* app/lib/aruco_utils.py.                                                 *)
(*                                                                         *)
(* Numbers.  Python floats are modelled as exact rationals <<num, den>>    *)
(* in lowest terms with den > 0; the value None is the empty tuple <<>>.   *)
(* Drawing inputs are taken from a grid on which every segment has an      *)
(* integer length, so that hypot() is exact.                               *)
(*                                                                         *)
(* Graphics items are the tuples <<kind, n>>, n a name for the press that  *)
(* created them, distinct from every name the state still mentions.        *)
(* QGraphicsScene.clear() deletes the C++ items of the scene and           *)
(* invalidates their Python wrappers: an item that is referenced by the    *)
(* canvas but is no longer in `scene` is such a deleted item, and every    *)
(* call on it raises RuntimeError.                                         *)
(*                                                                         *)
(* History variables (not fields of Canvas): `npress` counts the presses;  *)
(* `last_line_id` is the name of the line whose length _last_line_px       *)
(* holds; the field `id` of a shape and of a reference-cache entry is the  *)
(* name of the press that drew it.  What a handler returns is the value of *)
(* its <handler>_returns operator in the state it is called in.  The label *)
(* of a shape plays no part in any measurement and is left out.            *)
(*                                                                         *)
(* The marker ordering of the rectifier is a pure function of the centres  *)
(* of four markers; `four` and `src` hold its input and its result, and    *)
(* SpecOrder applies it to every detection order of a set of centres.  The *)
(* session (Spec, SpecDeep) sees the rectifier only through the image it   *)
(* returns, and leaves both variables empty.                               *)
(***************************************************************************)
EXTENDS Integers, Sequences, FiniteSets, TLC

VARIABLES
    img_np,            \* working image: None or <<markers, scale>>
    pix,               \* TRUE iff a pixmap item is shown (self.pix is not None)
    px_per_mm,         \* None or a rational
    shapes,            \* sequence of shape records
    item,              \* self._item: None or <<kind, n>>
    start,             \* self._start: None or a point
    measure_text,      \* self._measure_text: None or <<"text", n>>
    scene,             \* graphics items of the scene (the pixmap excluded)
    graphics_stack,    \* self._graphics_stack: sequence of item groups
    last_line_px,      \* self._last_line_px
    recent_lines,      \* self._recent_lines
    scale_alpha,       \* self._scale_alpha
    scale_beta,        \* self._scale_beta
    depth_mm_current,  \* self.depth_mm_current
    npress,            \* number of presses so far
    last_line_id,      \* history: name of the line behind last_line_px
    four,              \* marker centres in detection order
    src                \* the centres as _order_centers_tl_tr_br_bl orders them

vars == <<img_np, pix, px_per_mm, shapes, item, start, measure_text,
          scene, graphics_stack, last_line_px, recent_lines, scale_alpha,
          scale_beta, depth_mm_current, npress, last_line_id,
          four, src>>

-----------------------------------------------------------------------------
(* Bounds and input sets *)

\* Number of mouse presses (drawings started) in one run of the program.
MaxPress == 2

\* Presses in the deeper specification, which has room for a box or an
\* unscaled line beside the two cached lines.
DeepPress == MaxPress + 1

None == <<>>

\* Exact rational arithmetic standing for float arithmetic.
Abs(i) == IF i < 0 THEN -i ELSE i

RECURSIVE GCD(_, _)
GCD(a, b) == IF b = 0 THEN a ELSE GCD(b, a % b)

Rat(n, d) ==
    LET g == GCD(Abs(n), Abs(d))
        s == IF d < 0 THEN -1 ELSE 1
    IN  <<(s * n) \div g, (s * d) \div g>>

R(i) == <<i, 1>>
RAdd(a, b) == Rat(a[1] * b[2] + b[1] * a[2], a[2] * b[2])
RNeg(a) == <<-a[1], a[2]>>
RSub(a, b) == RAdd(a, RNeg(b))
RMul(a, b) == Rat(a[1] * b[1], a[2] * b[2])
RDiv(a, b) == RMul(a, Rat(b[2], b[1]))
\* A faulty comparison, which lets equal values through.
RLess_or_equal(a, b) == a[1] * b[2] <= b[1] * a[2]
RLess(a, b) == a[1] * b[2] < b[1] * a[2]
RPos(a) == a[1] > 0

\* Python truth value of an optional float: None and 0.0 are false.
Truthy(x) == x # None /\ x[1] # 0

\* sqrt(dx^2 + dy^2) on the drawing grid, where it is an integer.
Hypot(dx, dy) ==
    LET n == dx * dx + dy * dy
    IN  R(CHOOSE r \in 0..n : r * r = n)

Min(a, b) == IF a < b THEN a ELSE b

\* Scene points the mouse can be pressed at and moved to.  All distances
\* from the press point are integers: 6, 10 and 5.
PressPts == {<<0, 1>>}
MovePts == {<<6, 1>>, <<6, 9>>, <<3, 5>>}

\* What the marker detector finds in an image: the number of markers and the
\* px/mm the scale estimator derives from them (None without markers).
Images == { <<4, R(2)>> }

\* What the detector finds in a warped image, whose corners are the centres
\* of the four markers: some of the markers, or none of them.
Warps == { <<0, None>>, <<3, R(2)>> }

\* Arguments the UI passes to the calibrations.
KnownVals == {0, 2}
WidthVals == {3}
DepthVals == {7}

\* In a rank-deficient fit the float solver may return any least-squares
\* minimiser; Drift selects among them (0 is the minimum-norm one).
Drift == {0, 1}

-----------------------------------------------------------------------------
(* Helpers *)

Front(s) == SubSeq(s, 1, Len(s) - 1)
Last(s) == s[Len(s)]
Range(s) == {s[i] : i \in 1..Len(s)}

\* The names of drawings the state mentions, and the least name that is free.
UsedIds ==
    {shapes[i].id : i \in 1..Len(shapes)}
        \cup {recent_lines[i].id : i \in 1..Len(recent_lines)}
        \cup {it[2] : it \in scene}
        \cup {graphics_stack[i][1][2] : i \in 1..Len(graphics_stack)}
        \cup (IF item = None THEN {} ELSE {item[2]})
        \cup (IF measure_text = None THEN {} ELSE {measure_text[2]})
        \cup {last_line_id}

NewId ==
    CHOOSE n \in 1..(DeepPress + 1) :
        /\ n \notin UsedIds
        /\ \A m \in 1..(n - 1) : m \in UsedIds

\* An item the canvas still references is live iff the scene still holds it.
Live(it) == it \in scene

\* 0.5*(y1+y2)
Ymid(points) == Rat(points[2] + points[4], 2)

\* float(np.hypot(x2-x1, y2-y1)), also QLineF.length()
PixLen(points) == Hypot(points[3] - points[1], points[4] - points[2])

\* QRectF(start, p).normalized() as <<x, y, width, height>>
Normalized(g) ==
    <<Min(g[1], g[3]), Min(g[2], g[4]), Abs(g[3] - g[1]), Abs(g[4] - g[2])>>

\* A faulty correction, which leaves the midpoint out.
_correct_mm_ignoring_y(mm, y, alpha, beta) == RMul(mm, RAdd(alpha, beta))

\* Canvas._correct_mm
_correct_mm(mm, y, alpha, beta) == RMul(mm, RAdd(alpha, RMul(beta, y)))

\* First component of detect_aruco_scale: the mean px/mm, None without markers.
detect_aruco_scale(image) == IF image[1] = 0 THEN None ELSE image[2]

\* rectify_topdown_with_aruco as <<warped, px_per_mm>> (the homography is not
\* kept by the caller).  `warped` is what the warp of `image` shows to the
\* detector.
rectify_topdown_with_aruco(image, warped) ==
    IF image[1] < 4
    THEN <<None, None>>
    ELSE <<warped, detect_aruco_scale(warped)>>

\* A faulty fit, whose rows are (1, y) rather than (base_mm, base_mm * y).
lstsq_unweighted(y1, m1, y2, m2, w, t) ==
    IF y1 = y2
    THEN <<RAdd(w, RMul(R(t), y1)), RNeg(R(t))>>
    ELSE <<w, R(0)>>

\* np.linalg.lstsq(A, b)[0] for A = [[m1, m1*y1], [m2, m2*y2]], b = [w, w].
\* m1 and m2 are never 0, so A is singular exactly when y1 = y2 and then has
\* rank 1: the minimisers are the minimum-norm one plus t times the null
\* vector (y1, -1).
lstsq(y1, m1, y2, m2, w, t) ==
    LET a12 == RMul(m1, y1)
        a22 == RMul(m2, y2)
        det == RSub(RMul(m1, a22), RMul(a12, m2))
    IN  IF det[1] # 0
        THEN <<RDiv(RMul(w, RSub(a22, a12)), det),
               RDiv(RMul(w, RSub(m1, m2)), det)>>
        ELSE LET s == RDiv(RMul(w, RAdd(m1, m2)),
                           RAdd(RMul(m1, m1), RMul(m2, m2)))
                 n == RAdd(R(1), RMul(y1, y1))
             IN  <<RAdd(RDiv(s, n), RMul(R(t), y1)),
                   RSub(RDiv(RMul(s, y1), n), R(t))>>

\* Marker centres (c[0].mean(axis=0)) on a grid with shared x and shared y,
\* and the detections of four markers in every detection order.
Centres == {0, 2} \X {0, 1, 2, 3}
Detections ==
    {d \in [1..4 -> Centres] : \A i, j \in 1..4 : i # j => d[i] # d[j]}

\* np.argsort(keys) with the default kind, which is not stable: any index
\* order that sorts the keys.
argsort(keys) ==
    {idx \in [1..Len(keys) -> 1..Len(keys)] :
        /\ \A i, j \in 1..Len(keys) : i # j => idx[i] # idx[j]
        /\ \A i, j \in 1..Len(keys) : i < j => keys[idx[i]] <= keys[idx[j]]}

\* centers[:, c] as a sequence of keys
column(centers, c) == [i \in 1..Len(centers) |-> centers[i][c]]

\* top = centers[idx_y[:2]] and bottom = centers[idx_y[2:]]
top(centers, idx_y) == <<centers[idx_y[1]], centers[idx_y[2]]>>
bottom(centers, idx_y) == <<centers[idx_y[3]], centers[idx_y[4]]>>

\* _order_centers_tl_tr_br_bl, given the index orders its three argsorts
\* return: [tl, tr, br, bl].
_order_centers_tl_tr_br_bl(centers, idx_y, idx_t, idx_b) ==
    <<top(centers, idx_y)[idx_t[1]], top(centers, idx_y)[idx_t[2]],
      bottom(centers, idx_y)[idx_b[2]], bottom(centers, idx_y)[idx_b[1]]>>

\* The quadruples _order_centers_tl_tr_br_bl can return for centers.
orderings(centers) ==
    UNION {{_order_centers_tl_tr_br_bl(centers, idx_y, idx_t, idx_b) :
                idx_t \in argsort(column(top(centers, idx_y), 1)),
                idx_b \in argsort(column(bottom(centers, idx_y), 1))} :
           idx_y \in argsort(column(centers, 2))}

\* A faulty truncation of the reference-line cache, which keeps the two
\* oldest entries.
keep_oldest(lines) ==
    IF Len(lines) > 2 THEN SubSeq(lines, 1, 2) ELSE lines

\* self._recent_lines[-2:] when the list has more than 2 entries
keep_recent(lines) ==
    IF Len(lines) > 2 THEN SubSeq(lines, Len(lines) - 1, Len(lines)) ELSE lines

\* The dict of a stored line, and of a stored box (s.get() of a key a box
\* does not have is None).
LineShape(points, base_mm, mm_corr, depth, id) ==
    [type |-> "line", points |-> points, mm_value |-> base_mm,
     mm_corrected |-> mm_corr, depth_mm |-> depth, id |-> id]

BoxShape(points, id) ==
    [type |-> "box", points |-> points, mm_value |-> None,
     mm_corrected |-> None, depth_mm |-> None, id |-> id]

-----------------------------------------------------------------------------
(* State after Canvas.__init__ *)

InitCanvas ==
    /\ img_np = None
    /\ pix = FALSE
    /\ px_per_mm = None
    /\ shapes = <<>>
    /\ item = None
    /\ start = None
    /\ measure_text = None
    /\ scene = {}
    /\ graphics_stack = <<>>
    /\ last_line_px = None
    /\ recent_lines = <<>>
    /\ scale_alpha = R(1)
    /\ scale_beta = R(0)
    /\ depth_mm_current = None
    /\ npress = 0
    /\ last_line_id = 0

\* The session: the rectifier's ordering step is not looked at.
Init == InitCanvas /\ four = <<>> /\ src = <<>>

\* The rectifier before its ordering step, for each detection order of four
\* markers.
InitOrder == InitCanvas /\ four \in Detections /\ src = <<>>

-----------------------------------------------------------------------------
(* Faulty variants of the handlers, which the properties below reject *)

\* load that forgets the reference-line cache in its reset.
load_keeping_cache(image, ok) ==
    /\ scene' = {}
    /\ shapes' = <<>>
    /\ graphics_stack' = <<>>
    /\ px_per_mm' = None
    /\ item' = None
    /\ start' = None
    /\ measure_text' = None
    /\ last_line_px' = None
    /\ scale_alpha' = R(1)
    /\ scale_beta' = R(0)
    /\ depth_mm_current' = None
    /\ img_np' = IF ok THEN image ELSE img_np
    /\ pix' = ok
    /\ last_line_id' = 0
    /\ UNCHANGED <<npress, recent_lines, four, src>>

\* A refresh that skips the lines drawn before any scale was known.
refresh_scale_skipping_unscaled(s, new_px, alpha, beta) ==
    IF s.type = "line" /\ s.mm_value # None
    THEN [s EXCEPT !.mm_value = RDiv(PixLen(s.points), new_px),
                   !.mm_corrected =
                       _correct_mm(RDiv(PixLen(s.points), new_px),
                                   Ymid(s.points), alpha, beta)]
    ELSE s

\* A refresh that divides by the scale the session held before the call.
refresh_scale_by_old_scale(s, new_px, alpha, beta) ==
    LET px == IF px_per_mm = None THEN new_px ELSE px_per_mm
    IN  IF s.type = "line"
        THEN [s EXCEPT !.mm_value = RDiv(PixLen(s.points), px),
                       !.mm_corrected =
                           _correct_mm(RDiv(PixLen(s.points), px),
                                       Ymid(s.points), alpha, beta)]
        ELSE s

\* A refresh that recomputes base_mm and leaves corrected_mm as it was.
refresh_scale_base_only(s, new_px, alpha, beta) ==
    IF s.type = "line"
    THEN [s EXCEPT !.mm_value = RDiv(PixLen(s.points), new_px)]
    ELSE s

\* A refresh that corrects the lines but does not stamp the depth on them.
refresh_depth_without_stamp(s, alpha, beta, depth) ==
    IF s.type = "line" /\ s.mm_value # None
    THEN [s EXCEPT !.mm_corrected =
                       _correct_mm(s.mm_value, Ymid(s.points), alpha, beta)]
    ELSE s

\* A depth calibration that does not look at pixels_per_mm.
calibrate_depth_two_lines_rejects_unscaled == Len(recent_lines) < 2

-----------------------------------------------------------------------------
(* Handlers *)

\* Canvas.load(path).  `ok` is whether Image.open(path) succeeds; when it
\* raises, the reset before it has already happened.
load(image, ok) ==
    /\ scene' = {}
    /\ shapes' = <<>>
    /\ graphics_stack' = <<>>
    /\ px_per_mm' = None
    /\ item' = None
    /\ start' = None
    /\ measure_text' = None
    /\ last_line_px' = None
    /\ recent_lines' = <<>>
    /\ scale_alpha' = R(1)
    /\ scale_beta' = R(0)
    /\ depth_mm_current' = None
    /\ img_np' = IF ok THEN image ELSE img_np
    /\ pix' = ok
    /\ last_line_id' = 0
    /\ UNCHANGED <<npress, four, src>>

\* Left-button press at scene point p.  The button is up when it happens:
\* no drawing is pending, or the pending item was deleted under the mouse.
\* self.tool is written by set_tool alone, which the UI may call with either
\* name at any time: the press takes its current value as the input `tool`.
mousePressEvent(p, tool) ==
    /\ IF item = None THEN TRUE ELSE ~Live(item)
    /\ pix
    /\ LET n == NewId
           it == IF tool = "box" THEN <<"rect", n>> ELSE <<"line", n>>
       IN  /\ item' = it
           /\ measure_text' =
                  IF tool = "box" THEN measure_text ELSE <<"text", n>>
           /\ scene' = scene \cup {it} \cup
                  (IF tool = "box" THEN {} ELSE {<<"text", n>>})
           /\ start' = p
           /\ npress' = npress + 1
    /\ UNCHANGED <<img_np, pix, px_per_mm, shapes, graphics_stack,
                   last_line_px, recent_lines, scale_alpha, scale_beta,
                   depth_mm_current, last_line_id,
                   four, src>>

\* Mouse move to scene point p: the pending item follows the mouse.  The
\* handler changes nothing but the geometry of the pending item, which only the
\* release reads: it is modelled as the geometry <<x1, y1, x2, y2>> the item
\* has after the move, and the last move of a drag is taken together with the
\* release.  A drag that ends where it started covers a release without move.
mouseMoveEvent(p) == <<start[1], start[2], p[1], p[2]>>

\* self._item.rect() / .line() raises on an item the scene has deleted.
mouseReleaseEvent_raises == item # None /\ ~Live(item)

\* Left-button release after a drag to scene point p: the pending drawing is
\* stored or discarded.
mouseReleaseEvent(p) ==
    /\ item # None
    /\ IF mouseReleaseEvent_raises
       THEN UNCHANGED <<shapes, scene, graphics_stack, item, start,
                        measure_text, last_line_px, recent_lines,
                        last_line_id>>
       ELSE LET g == mouseMoveEvent(p)
                n == item[2]
            IN  /\ item' = None
                /\ start' = None
                /\ IF item[1] = "rect"
                   THEN LET r == Normalized(g)
                        IN  /\ IF r[3] > 5 /\ r[4] > 5
                               THEN /\ shapes' = Append(shapes, BoxShape(r, n))
                                    /\ graphics_stack' =
                                           Append(graphics_stack, <<item>>)
                                    /\ scene' = scene
                               ELSE /\ scene' = scene \ {item}
                                    /\ UNCHANGED <<shapes, graphics_stack>>
                            /\ UNCHANGED <<measure_text, last_line_px,
                                           recent_lines, last_line_id>>
                   ELSE LET length == PixLen(g)
                            ymid == Ymid(g)
                            base_mm == IF Truthy(px_per_mm)
                                       THEN RDiv(length, px_per_mm)
                                       ELSE None
                            mm_corr == IF base_mm # None
                                       THEN _correct_mm(base_mm, ymid,
                                                scale_alpha, scale_beta)
                                       ELSE None
                            appended == Append(recent_lines,
                                               [y |-> ymid, mm |-> base_mm,
                                                id |-> n])
                            created == IF measure_text # None
                                       THEN <<item, measure_text>>
                                       ELSE <<item>>
                        IN  IF RLess(R(5), length)
                            THEN /\ last_line_px' = length
                                 /\ last_line_id' = n
                                 /\ recent_lines' =
                                        IF base_mm = None THEN recent_lines
                                        ELSE keep_recent(appended)
                                 /\ shapes' =
                                        Append(shapes,
                                               LineShape(g, base_mm, mm_corr,
                                                         depth_mm_current, n))
                                 /\ measure_text' = None
                                 /\ graphics_stack' =
                                        Append(graphics_stack, created)
                                 /\ scene' = scene
                            ELSE /\ scene' = (scene \ {item}) \
                                        (IF measure_text # None
                                         THEN {measure_text} ELSE {})
                                 /\ measure_text' = None
                                 /\ UNCHANGED <<shapes, graphics_stack,
                                                last_line_px, recent_lines,
                                                last_line_id>>
    /\ UNCHANGED <<img_np, pix, px_per_mm, scale_alpha, scale_beta,
                   depth_mm_current, npress,
                   four, src>>

\* removeItem raises on an item the scene has deleted.
undo_raises ==
    /\ graphics_stack # <<>>
    /\ shapes # <<>>
    /\ ~Live(Last(graphics_stack)[1])

\* Canvas.undo.  It returns at once on an empty undo stack or shape list.
\* The group is popped before its items are removed from the scene; when
\* removeItem raises, shapes.pop() is not reached.
undo ==
    IF graphics_stack = <<>> \/ shapes = <<>>
    THEN UNCHANGED vars
    ELSE /\ graphics_stack' = Front(graphics_stack)
         /\ IF undo_raises
            THEN UNCHANGED <<scene, shapes>>
            ELSE /\ scene' = scene \ Range(Last(graphics_stack))
                 /\ shapes' = Front(shapes)
         /\ UNCHANGED <<img_np, pix, px_per_mm, item, start, measure_text,
                        last_line_px, recent_lines, scale_alpha, scale_beta,
                        depth_mm_current, npress, last_line_id,
                        four, src>>

\* The value Canvas.detect_scale returns, for the marker size the UI holds.
detect_scale_returns ==
    IF img_np = None THEN None
    ELSE IF ~Truthy(detect_aruco_scale(img_np)) THEN None
    ELSE detect_aruco_scale(img_np)

\* A faulty detect_scale, which puts the depth model back to the identity.
detect_scale_resetting_depth ==
    /\ px_per_mm' = IF detect_scale_returns = None THEN px_per_mm
                    ELSE detect_scale_returns
    /\ scale_alpha' = R(1)
    /\ scale_beta' = R(0)
    /\ UNCHANGED <<img_np, pix, shapes, item, start, measure_text, scene,
                   graphics_stack, last_line_px, recent_lines,
                   depth_mm_current, npress, last_line_id,
                   four, src>>

\* Canvas.detect_scale
detect_scale ==
    /\ px_per_mm' = IF detect_scale_returns = None THEN px_per_mm
                    ELSE detect_scale_returns
    /\ UNCHANGED <<img_np, pix, shapes, item, start, measure_text, scene,
                   graphics_stack, last_line_px, recent_lines, scale_alpha,
                   scale_beta, depth_mm_current, npress, last_line_id,
                   four, src>>

\* Whether Canvas.rectify_topdown gets a warped image and replaces the
\* working image with it.
rectify_topdown_replaces(warped) ==
    /\ img_np # None
    /\ rectify_topdown_with_aruco(img_np, warped)[1] # None

\* The value Canvas.rectify_topdown returns.
rectify_topdown_returns(warped) ==
    IF rectify_topdown_replaces(warped)
    THEN rectify_topdown_with_aruco(img_np, warped)[2]
    ELSE None

\* Canvas.rectify_topdown with replace_with_np.  `warped` is what the detector
\* finds in the warped image.
rectify_topdown(warped) ==
    /\ IF rectify_topdown_replaces(warped)
       THEN /\ scene' = {}
            /\ pix' = TRUE
            /\ img_np' = rectify_topdown_with_aruco(img_np, warped)[1]
            /\ px_per_mm' = rectify_topdown_with_aruco(img_np, warped)[2]
       ELSE UNCHANGED <<scene, pix, img_np, px_per_mm>>
    /\ UNCHANGED <<shapes, item, start, measure_text, graphics_stack,
                   last_line_px, recent_lines, scale_alpha, scale_beta,
                   depth_mm_current, npress, last_line_id,
                   four, src>>

\* The guard of Canvas.calibrate_from_last_line: the call returns None at once.
calibrate_from_last_line_rejects(known_mm) ==
    ~Truthy(last_line_px) \/ known_mm <= 0

\* The value Canvas.calibrate_from_last_line(known_mm) returns.
calibrate_from_last_line_returns(known_mm) ==
    IF calibrate_from_last_line_rejects(known_mm) THEN None
    ELSE RDiv(last_line_px, R(known_mm))

\* The loop body of calibrate_from_last_line: the refreshed dict of shape s
\* under the new scale.
refresh_scale(s, new_px, alpha, beta) ==
    IF s.type = "line"
    THEN [s EXCEPT !.mm_value = RDiv(PixLen(s.points), new_px),
                   !.mm_corrected =
                       _correct_mm(RDiv(PixLen(s.points), new_px),
                                   Ymid(s.points), alpha, beta)]
    ELSE s

\* Canvas.calibrate_from_last_line(known_mm)
calibrate_from_last_line(known_mm) ==
    /\ UNCHANGED <<img_np, pix, item, start, measure_text, scene,
                   graphics_stack, last_line_px, recent_lines, scale_alpha,
                   scale_beta, depth_mm_current, npress, last_line_id,
                   four, src>>
    /\ IF calibrate_from_last_line_rejects(known_mm)
       THEN UNCHANGED <<px_per_mm, shapes>>
       ELSE /\ px_per_mm' = calibrate_from_last_line_returns(known_mm)
            /\ shapes' =
                   [i \in 1..Len(shapes) |->
                       refresh_scale(shapes[i],
                                     calibrate_from_last_line_returns(known_mm),
                                     scale_alpha, scale_beta)]

\* The guard of Canvas.calibrate_depth_two_lines: the call returns None at
\* once.
calibrate_depth_two_lines_rejects ==
    Len(recent_lines) < 2 \/ ~Truthy(px_per_mm)

\* The value Canvas.calibrate_depth_two_lines returns: None or <<a, beta>>.
\* t selects the minimiser the solver returns when the system is
\* rank-deficient.
calibrate_depth_two_lines_returns(true_width_mm, depth_mm, t) ==
    IF calibrate_depth_two_lines_rejects THEN None
    ELSE LET e1 == recent_lines[Len(recent_lines) - 1]
             e2 == recent_lines[Len(recent_lines)]
         IN  lstsq(e1.y, e1.mm, e2.y, e2.mm, R(true_width_mm), t)

\* The loop body of calibrate_depth_two_lines: the refreshed dict of shape s
\* under the new depth model.
refresh_depth(s, alpha, beta, depth) ==
    IF s.type = "line" /\ s.mm_value # None
    THEN [s EXCEPT !.mm_corrected =
                       _correct_mm(s.mm_value, Ymid(s.points), alpha, beta),
                   !.depth_mm = depth]
    ELSE s

\* Canvas.calibrate_depth_two_lines(true_width_mm, depth_mm)
calibrate_depth_two_lines(true_width_mm, depth_mm, t) ==
    /\ UNCHANGED <<img_np, pix, px_per_mm, item, start, measure_text, scene,
                   graphics_stack, last_line_px, recent_lines, npress,
                   last_line_id,
                   four, src>>
    /\ IF calibrate_depth_two_lines_rejects
       THEN /\ t = 0
            /\ UNCHANGED <<scale_alpha, scale_beta, depth_mm_current, shapes>>
       ELSE LET fit == calibrate_depth_two_lines_returns(true_width_mm,
                                                          depth_mm, t)
            IN  /\ IF recent_lines[Len(recent_lines) - 1].y =
                          recent_lines[Len(recent_lines)].y
                   THEN TRUE ELSE t = 0
                /\ scale_alpha' = fit[1]
                /\ scale_beta' = fit[2]
                /\ depth_mm_current' = R(depth_mm)
                /\ shapes' =
                       [i \in 1..Len(shapes) |->
                           refresh_depth(shapes[i], fit[1], fit[2],
                                         R(depth_mm))]

-----------------------------------------------------------------------------
(* Specification *)

Next ==
    \/ \E image \in Images, ok \in BOOLEAN : load(image, ok)
    \/ /\ npress < MaxPress
       /\ \E p \in PressPts, tool \in {"box", "line"} :
              mousePressEvent(p, tool)
    \/ \E p \in MovePts \cup PressPts : mouseReleaseEvent(p)
    \/ undo
    \/ detect_scale
    \/ \E warped \in Warps : rectify_topdown(warped)
    \/ \E k \in KnownVals : calibrate_from_last_line(k)
    \/ \E w \in WidthVals, d \in DepthVals, t \in Drift :
           calibrate_depth_two_lines(w, d, t)

Spec == Init /\ [][Next]_vars

\* The same handlers with one more press.
NextDeep ==
    \/ \E image \in Images, ok \in BOOLEAN : load(image, ok)
    \/ /\ npress < DeepPress
       /\ \E p \in PressPts, tool \in {"box", "line"} :
              mousePressEvent(p, tool)
    \/ \E p \in MovePts \cup PressPts : mouseReleaseEvent(p)
    \/ undo
    \/ detect_scale
    \/ \E warped \in Warps : rectify_topdown(warped)
    \/ \E k \in KnownVals : calibrate_from_last_line(k)
    \/ \E w \in WidthVals, d \in DepthVals, t \in Drift :
           calibrate_depth_two_lines(w, d, t)

SpecDeep == Init /\ [][NextDeep]_vars

\* four = corners[:4]; src = _order_centers_tl_tr_br_bl(four) in
\* rectify_topdown_with_aruco.
order_four ==
    /\ four # <<>>
    /\ src = <<>>
    /\ src' \in orderings(four)
    /\ UNCHANGED <<img_np, pix, px_per_mm, shapes, item, start, measure_text,
                   scene, graphics_stack, last_line_px, recent_lines,
                   scale_alpha, scale_beta, depth_mm_current, npress,
                   last_line_id, four>>

NextOrder == order_four

SpecOrder == InitOrder /\ [][NextOrder]_vars

-----------------------------------------------------------------------------
(* Properties *)

Lines == {i \in 1..Len(shapes) : shapes[i].type = "line"}
Boxes == {i \in 1..Len(shapes) : shapes[i].type = "box"}

\* C1: whenever pixels_per_mm is present, every stored line has base_mm
\* (mm_value) equal to its pixel length divided by the current pixels_per_mm.
C1_StoredLinesFollowScale ==
    px_per_mm # None =>
        \A i \in Lines :
            /\ shapes[i].mm_value # None
            /\ RMul(shapes[i].mm_value, px_per_mm) = PixLen(shapes[i].points)

\* C2: every entry of the reference-line cache was recorded from a line that
\* is still in the shape list.
C2_CacheEntriesAreStored ==
    \A k \in 1..Len(recent_lines) :
        \E i \in Lines : shapes[i].id = recent_lines[k].id

\* C3: whenever rectify_topdown replaces the working image, pixels_per_mm is
\* present and positive afterwards.
C3_RectifyLeavesScaled ==
    [][\A warped \in Warps :
          (rectify_topdown_replaces(warped) /\ rectify_topdown(warped))
              => (px_per_mm' # None /\ RPos(px_per_mm'))]_vars

\* C4: load resets the whole session, whether or not the file then opens: no
\* shapes, no undo groups, no scale, identity depth model, no depth, an empty
\* reference-line cache and no last line, so that both calibrations return
\* None in the state it leaves.
C4_LoadResetsSession ==
    [][\A image \in Images, ok \in BOOLEAN :
          load(image, ok) =>
              /\ shapes' = <<>>
              /\ graphics_stack' = <<>>
              /\ scene' = {}
              /\ px_per_mm' = None
              /\ scale_alpha' = R(1)
              /\ scale_beta' = R(0)
              /\ depth_mm_current' = None
              /\ recent_lines' = <<>>
              /\ last_line_px' = None
              /\ \A k \in KnownVals :
                     calibrate_from_last_line_returns(k)' = None
              /\ \A w \in WidthVals, d \in DepthVals, t \in Drift :
                     calibrate_depth_two_lines_returns(w, d, t)' = None]_vars

\* A failed load of a second file, after drawings were made on the first.
C4_Witness ==
    /\ ~pix
    /\ img_np # None
    /\ npress = MaxPress
    /\ shapes = <<>>
    /\ recent_lines = <<>>
    /\ last_line_px = None
    /\ px_per_mm = None

\* C5: undo on a session with a stored shape removes exactly the last shape
\* and its group of graphics items; with no stored shape it changes nothing.
C5_UndoRemovesLastShape ==
    [][undo =>
          IF shapes = <<>>
          THEN UNCHANGED vars
          ELSE /\ shapes' = Front(shapes)
               /\ graphics_stack # <<>>
               /\ graphics_stack' = Front(graphics_stack)
               /\ scene' = scene \ Range(Last(graphics_stack))]_vars

\* C6: a successful calibrate_from_last_line(known_mm) sets pixels_per_mm to
\* the last line's pixel length over known_mm, gives every stored line
\* base_mm = pixel length / pixels_per_mm and corrected_mm = base_mm *
\* (alpha + beta * ymid), and leaves the depth model, the depth, every line's
\* depth_mm and endpoints, and every box as they were.
C6_ScaleCalibrationRefreshesLines ==
    [][\A k \in KnownVals :
          (last_line_px # None /\ k > 0 /\ calibrate_from_last_line(k)) =>
              /\ RMul(px_per_mm', R(k)) = last_line_px
              /\ Len(shapes') = Len(shapes)
              /\ \A i \in Lines :
                     LET base == RDiv(PixLen(shapes[i].points), px_per_mm')
                     IN  shapes'[i] =
                             [shapes[i] EXCEPT
                                 !.mm_value = base,
                                 !.mm_corrected =
                                     RMul(base,
                                          RAdd(scale_alpha,
                                               RMul(scale_beta,
                                                    Ymid(shapes[i].points))))]
              /\ \A i \in Boxes : shapes'[i] = shapes[i]
              /\ UNCHANGED <<scale_alpha, scale_beta, depth_mm_current>>]_vars

\* A line of 6 px drawn without a scale and a line of 10 px calibrated as
\* 2 mm: 5 px/mm, and the first line measures 6/5 mm.
C6_Witness ==
    /\ px_per_mm = R(5)
    /\ \E i \in Lines :
           /\ PixLen(shapes[i].points) = R(6)
           /\ shapes[i].mm_value = Rat(6, 5)
    /\ \E i \in Lines :
           /\ PixLen(shapes[i].points) = R(10)
           /\ shapes[i].mm_value = R(2)

C8_DepthCalibrationRefreshesLines ==
    [][\A w \in WidthVals, d \in DepthVals, t \in Drift :
          (/\ Len(recent_lines) >= 2
           /\ px_per_mm # None
           /\ calibrate_depth_two_lines(w, d, t)) =>
              /\ <<scale_alpha', scale_beta'>> =
                     calibrate_depth_two_lines_returns(w, d, t)
              /\ depth_mm_current' = R(d)
              /\ Len(shapes') = Len(shapes)
              /\ \A i \in 1..Len(shapes) :
                     IF shapes[i].type = "line" /\ shapes[i].mm_value # None
                     THEN shapes'[i] =
                              [shapes[i] EXCEPT
                                  !.mm_corrected =
                                      RMul(shapes[i].mm_value,
                                           RAdd(scale_alpha',
                                                RMul(scale_beta',
                                                     Ymid(shapes[i].points)))),
                                  !.depth_mm = R(d)]
                     ELSE shapes'[i] = shapes[i]
              /\ UNCHANGED <<px_per_mm, recent_lines>>]_vars

\* After a depth calibration at 7 mm that moved the model off the identity:
\* a line stamped with the depth and corrected by the model, beside a box or
\* a line without base_mm that carries no depth.
C8_Witness ==
    /\ depth_mm_current = R(7)
    /\ scale_beta # R(0)
    /\ \E i \in Lines :
           /\ shapes[i].depth_mm = R(7)
           /\ shapes[i].mm_corrected # shapes[i].mm_value
    /\ \E i \in 1..Len(shapes) :
           /\ shapes[i].mm_value = None
           /\ shapes[i].depth_mm = None

\* C9: when the two cached lines have different ymid, the system
\* base_mm_i * (alpha + beta * ymid_i) = true_width_mm, i = 1, 2, has one
\* solution and the (alpha, beta) calibrate_depth_two_lines stores is it.
C9_DepthFitIsExact ==
    [][\A w \in WidthVals, d \in DepthVals, t \in Drift :
          (/\ Len(recent_lines) >= 2
           /\ px_per_mm # None
           /\ recent_lines[Len(recent_lines) - 1].y #
                  recent_lines[Len(recent_lines)].y
           /\ calibrate_depth_two_lines(w, d, t)) =>
              LET e1 == recent_lines[Len(recent_lines) - 1]
                  e2 == recent_lines[Len(recent_lines)]
              IN  /\ RMul(e1.mm, RAdd(scale_alpha', RMul(scale_beta', e1.y)))
                         = R(w)
                  /\ RMul(e2.mm, RAdd(scale_alpha', RMul(scale_beta', e2.y)))
                         = R(w)
                  /\ RMul(RMul(e1.mm, e2.mm), RSub(e2.y, e1.y))[1] # 0]_vars

\* Lines of 3 mm at ymid 1 and 5 mm at ymid 5, fitted to a true width of
\* 3 mm: alpha = 11/10, beta = -1/10.
C9_Witness ==
    /\ Len(recent_lines) = 2
    /\ recent_lines[1].y # recent_lines[2].y
    /\ recent_lines[1].mm # recent_lines[2].mm
    /\ RMul(recent_lines[1].mm,
            RAdd(scale_alpha, RMul(scale_beta, recent_lines[1].y))) = R(3)
    /\ RMul(recent_lines[2].mm,
            RAdd(scale_alpha, RMul(scale_beta, recent_lines[2].y))) = R(3)
    /\ depth_mm_current = R(7)

\* C10: calibrate_depth_two_lines returns None and changes nothing exactly
\* when the cache holds fewer than two entries or pixels_per_mm is absent;
\* calibrate_from_last_line returns None and changes nothing exactly when no
\* valid line has been drawn since the last load or known_mm <= 0; in every
\* other state they return a value and store it.
C10_CalibrationsFailOnlyOnPrecondition ==
    /\ [](\A k \in KnownVals :
              calibrate_from_last_line_returns(k) = None
                  <=> (last_line_id = 0 \/ k <= 0))
    /\ [](\A w \in WidthVals, d \in DepthVals, t \in Drift :
              calibrate_depth_two_lines_returns(w, d, t) = None
                  <=> (Len(recent_lines) < 2 \/ px_per_mm = None))
    /\ [][/\ \A k \in KnownVals :
                 calibrate_from_last_line(k) =>
                     IF last_line_id = 0 \/ k <= 0
                     THEN UNCHANGED vars
                     ELSE px_per_mm' = calibrate_from_last_line_returns(k)
          /\ \A w \in WidthVals, d \in DepthVals, t \in Drift :
                 calibrate_depth_two_lines(w, d, t) =>
                     IF Len(recent_lines) < 2 \/ px_per_mm = None
                     THEN UNCHANGED vars
                     ELSE /\ <<scale_alpha', scale_beta'>> =
                                 calibrate_depth_two_lines_returns(w, d, t)
                          /\ depth_mm_current' = R(d)]_vars

\* A full cache and a drawn line, but the scale lost to a rectification
\* that found no marker: the depth calibration and a calibration to 0 mm
\* fail, a calibration to 2 mm succeeds.
C10_Witness ==
    /\ Len(recent_lines) = 2
    /\ px_per_mm = None
    /\ last_line_id # 0
    /\ \A w \in WidthVals, d \in DepthVals, t \in Drift :
           calibrate_depth_two_lines_returns(w, d, t) = None
    /\ calibrate_from_last_line_returns(0) = None
    /\ calibrate_from_last_line_returns(2) # None

\* C11: detect_scale on an image with no detected marker and rectify_topdown
\* on an image with fewer than 4 detected markers return None; and whenever
\* detect_scale or rectify_topdown returns None, the session state is
\* unchanged.
C11_DetectionFailuresChangeNothing ==
    /\ []((img_np # None /\ img_np[1] = 0) => detect_scale_returns = None)
    /\ []((img_np # None /\ img_np[1] < 4) =>
              \A warped \in Warps : rectify_topdown_returns(warped) = None)
    /\ [][/\ (detect_scale /\ detect_scale_returns = None)
                 => UNCHANGED vars
          /\ \A warped \in Warps :
                 (rectify_topdown(warped)
                      /\ rectify_topdown_returns(warped) = None)
                     => UNCHANGED vars]_vars

\* C12: (alpha, beta) is (1, 0) after construction and after every load, and
\* no step changes it other than a load and a successful
\* calibrate_depth_two_lines: press, release, undo, detect_scale,
\* rectify_topdown, calibrate_from_last_line and a failed depth calibration
\* leave it as it was.
C12_DepthModelLifecycle ==
    /\ scale_alpha = R(1) /\ scale_beta = R(0)
    /\ [][/\ \A image \in Images, ok \in BOOLEAN :
                 load(image, ok) => (scale_alpha' = R(1) /\ scale_beta' = R(0))
          /\ <<scale_alpha, scale_beta>>' # <<scale_alpha, scale_beta>> =>
                 \/ \E image \in Images, ok \in BOOLEAN : load(image, ok)
                 \/ /\ Len(recent_lines) >= 2
                    /\ px_per_mm # None
                    /\ \E w \in WidthVals, d \in DepthVals, t \in Drift :
                           calibrate_depth_two_lines(w, d, t)
          /\ (\/ \E p \in PressPts, tool \in {"box", "line"} :
                     mousePressEvent(p, tool)
              \/ \E p \in MovePts \cup PressPts : mouseReleaseEvent(p)
              \/ undo
              \/ detect_scale
              \/ \E warped \in Warps : rectify_topdown(warped)
              \/ \E k \in KnownVals : calibrate_from_last_line(k)
              \/ /\ Len(recent_lines) < 2 \/ px_per_mm = None
                 /\ \E w \in WidthVals, d \in DepthVals, t \in Drift :
                        calibrate_depth_two_lines(w, d, t))
                 => UNCHANGED <<scale_alpha, scale_beta>>]_vars

\* A fitted depth model that has outlived an undo of both lines and a
\* calibration from the last line (5 px/mm comes from no detection).
C12_Witness ==
    /\ scale_beta # R(0)
    /\ shapes = <<>>
    /\ px_per_mm = R(5)

C14_NewLineFields ==
    [][\A p \in MovePts \cup PressPts :
          (/\ item # None
           /\ start # None
           /\ item[1] = "line"
           /\ Len(shapes') = Len(shapes) + 1
           /\ mouseReleaseEvent(p)) =>
              LET s == Last(shapes')
                  dx == p[1] - start[1]
                  dy == p[2] - start[2]
                  y == Rat(start[2] + p[2], 2)
              IN  /\ s.type = "line"
                  /\ s.points = <<start[1], start[2], p[1], p[2]>>
                  /\ s.depth_mm = depth_mm_current
                  /\ IF px_per_mm = None
                     THEN /\ s.mm_value = None
                          /\ s.mm_corrected = None
                          /\ recent_lines' = recent_lines
                     ELSE /\ s.mm_value # None
                          /\ LET len == RMul(s.mm_value, px_per_mm)
                             IN  /\ len[2] = 1
                                 /\ len[1] * len[1] = dx * dx + dy * dy
                          /\ s.mm_corrected =
                                 RMul(s.mm_value,
                                      RAdd(scale_alpha, RMul(scale_beta, y)))
                          /\ recent_lines' # <<>>
                          /\ Last(recent_lines').y = y
                          /\ Last(recent_lines').mm = s.mm_value]_vars

\* A line drawn after a depth calibration: the cache has changed since the
\* fit (it could not produce the current model), its newest entry belongs to
\* the last stored line, and that line carries the depth and a corrected_mm
\* that differs from its base_mm.
C14_Witness ==
    /\ Len(recent_lines) = 2
    /\ scale_beta # R(0)
    /\ \A t \in Drift :
           lstsq(recent_lines[1].y, recent_lines[1].mm,
                 recent_lines[2].y, recent_lines[2].mm, R(3), t)
               # <<scale_alpha, scale_beta>>
    /\ shapes # <<>>
    /\ Last(shapes).id = recent_lines[2].id
    /\ Last(shapes).depth_mm = R(7)
    /\ Last(shapes).mm_value # None
    /\ Last(shapes).mm_corrected # Last(shapes).mm_value

\* C15: the reference-line cache never holds more than 2 entries; storing a
\* line while pixels_per_mm is present appends its entry and, when that
\* makes three, drops exactly the oldest; and no step other than such a line
\* creation and a load changes the cache, so that it holds, in drawing order,
\* the two most recently drawn eligible lines.
C15_CacheKeepsTwoNewest ==
    /\ [](Len(recent_lines) <= 2)
    /\ [][/\ \A p \in MovePts \cup PressPts :
                 (/\ item # None
                  /\ start # None
                  /\ item[1] = "line"
                  /\ px_per_mm # None
                  /\ Len(shapes') = Len(shapes) + 1
                  /\ mouseReleaseEvent(p)) =>
                     /\ recent_lines' # <<>>
                     /\ Last(recent_lines').id = Last(shapes').id
                     /\ Last(recent_lines').y = Rat(start[2] + p[2], 2)
                     /\ Last(recent_lines').mm = Last(shapes').mm_value
                     /\ Front(recent_lines') =
                            IF Len(recent_lines) = 2
                            THEN <<recent_lines[2]>>
                            ELSE recent_lines
          /\ recent_lines' # recent_lines =>
                 \/ \E image \in Images, ok \in BOOLEAN : load(image, ok)
                 \/ /\ item # None
                    /\ item[1] = "line"
                    /\ px_per_mm # None
                    /\ Len(shapes') = Len(shapes) + 1
                    /\ \E p \in MovePts \cup PressPts :
                           mouseReleaseEvent(p)]_vars

\* Three stored lines of which the cache holds the second and the third,
\* under a depth model that this cache could not produce: it was fitted
\* before the third line was drawn, when the cache held the first line, whose
\* entry has been evicted since.
C15_Witness ==
    /\ Len(shapes) = 3
    /\ Lines = {1, 2, 3}
    /\ Len(recent_lines) = 2
    /\ recent_lines[1].id = shapes[2].id
    /\ recent_lines[2].id = shapes[3].id
    /\ scale_beta # R(0)
    /\ \A t \in Drift :
           lstsq(recent_lines[1].y, recent_lines[1].mm,
                 recent_lines[2].y, recent_lines[2].mm, R(3), t)
               # <<scale_alpha, scale_beta>>

\* C16: every stored line that has a base_mm has corrected_mm = base_mm *
\* (alpha + beta * ymid) for the session's current (alpha, beta); every
\* stored line without base_mm has no corrected_mm; and while no depth
\* calibration has succeeded since the last load, corrected_mm = base_mm for
\* every stored line.
C16_CorrectedFollowsDepthModel ==
    /\ \A i \in Lines :
           LET s == shapes[i]
               y == Rat(s.points[2] + s.points[4], 2)
           IN  IF s.mm_value # None
               THEN s.mm_corrected =
                        RMul(s.mm_value,
                             RAdd(scale_alpha, RMul(scale_beta, y)))
               ELSE s.mm_corrected = None
    /\ depth_mm_current = None =>
           \A i \in Lines : shapes[i].mm_corrected = shapes[i].mm_value

\* Under a fitted depth model and a scale set from the last line: a line
\* whose corrected_mm differs from its base_mm.
C16_Witness ==
    /\ scale_beta # R(0)
    /\ px_per_mm = R(5)
    /\ \E i \in Lines :
           /\ shapes[i].mm_value # None
           /\ shapes[i].mm_corrected # shapes[i].mm_value

\* C17: the quadruple _order_centers_tl_tr_br_bl returns for four centres
\* is the same for every detection order of these centres, also when centres
\* share a y or an x.
C17_OrderingIgnoresDetectionOrder ==
    src # <<>> =>
        \A d \in Detections :
            Range(d) = Range(four) => \A o \in orderings(d) : o = src

\* C18: _last_line_px is None or the pixel length of the last line in the
\* shape list, so that calibrate_from_last_line succeeds only while the line
\* it calibrates from is stored.
C18_LastLineIsStored ==
    last_line_px # None =>
        /\ Lines # {}
        /\ \E i \in Lines :
               /\ \A j \in Lines : j <= i
               /\ PixLen(shapes[i].points) = last_line_px

\* C19: for each entry of the reference-line cache whose line is still in
\* the shape list, the cached base_mm is that line's current mm_value.
C19_CacheFollowsRescaling ==
    \A k \in 1..Len(recent_lines) :
        \A i \in Lines :
            shapes[i].id = recent_lines[k].id =>
                recent_lines[k].mm = shapes[i].mm_value

\* C20: the undo stack has one group of graphics items for each stored
\* shape, and every item in it is an item of the scene.
C20_UndoStackPairedWithScene ==
    /\ Len(graphics_stack) = Len(shapes)
    /\ \A g \in 1..Len(graphics_stack) :
           \A it \in Range(graphics_stack[g]) : it \in scene

====
